---------------------------- MODULE Spec2Model ----------------------------
(***************************************************************************)
(* A model of geopyspark's tile rendering front end:                       *)
(*   - render.py : PngRDD (constructor, makePyramid, lookup, set_persist)  *)
(*   - tms.py    : TileRender / TileCompositer (the callback bridge) and   *)
(*                 TMS (build, bind, unbind, set_handshake, url_pattern)   *)
(* Python values are modelled by value: None is a sentinel, a raised       *)
(* exception is the "err" field of an operation's result, and the calls a  *)
(* method makes on its collaborators are counted in the result.            *)
(***************************************************************************)
EXTENDS Integers, Sequences, FiniteSets, TLC

VARIABLES png, pngOp, tms, server, tmsOp, supplied, bridge, failures, brOp

vars == <<png, pngOp, tms, server, tmsOp, supplied, bridge, failures, brOp>>

pngVars == <<png, pngOp>>
tmsVars == <<tms, server, tmsOp>>
brVars == <<supplied, bridge, failures, brOp>>

(***************************************************************************)
(* Bounds of the model.                                                    *)
(***************************************************************************)
MaxZoom == 2
MaxKey == 3
MaxSources == 3
MaxBytes == 2
MaxTiles == 2
MaxFail == 2

(***************************************************************************)
(* Python values.                                                          *)
(***************************************************************************)
\* None, where the other values of the argument are non-negative integers
\* (zoom=None, start_zoom=None, zoom_level None, requested_port=None).
None == -1

\* Python truth testing `not v` of an int-or-None: None and 0 are both false.
Falsy(v) == v = None \/ v = 0

\* seq[idx] of a Python list: 0-based, negative indices count from the end,
\* anything else raises IndexError.
PyIndexOK(seq, idx) == idx >= 0 - Len(seq) /\ idx < Len(seq)

PyIndex(seq, idx) == IF idx >= 0 THEN seq[idx + 1] ELSE seq[Len(seq) + idx + 1]

NoError == "none"

(***************************************************************************)
(* The raster engine (TiledRasterRDD.reproject / .pyramid and the JVM      *)
(* PngRDD): levels from start_zoom down to end_zoom, the bounds of a       *)
(* coarser level being the finer level's keys halved.                      *)
(***************************************************************************)
RECURSIVE Halve(_, _)
Halve(k, n) == IF n = 0 THEN k ELSE Halve(k \div 2, n - 1)

\* the key rectangles the finest level is given
TopBounds ==
    { [minKey |-> [col |-> 0, row |-> 0], maxKey |-> [col |-> MaxKey, row |-> MaxKey]],
      [minKey |-> [col |-> 1, row |-> 0], maxKey |-> [col |-> MaxKey, row |-> 2]],
      [minKey |-> [col |-> 1, row |-> 1], maxKey |-> [col |-> 2, row |-> MaxKey]] }

EngineLevel(z, top, tb) ==
    [zoom_level |-> z,
     layer_metadata |->
        [zoom |-> z,
         bounds |-> [minKey |-> [col |-> Halve(tb.minKey.col, top - z),
                                 row |-> Halve(tb.minKey.row, top - z)],
                     maxKey |-> [col |-> Halve(tb.maxKey.col, top - z),
                                 row |-> Halve(tb.maxKey.row, top - z)]]],
     srdd |-> [zoom |-> z, persist |-> "NONE"]]

EnginePyramid(start, end, tb) ==
    IF start < end THEN <<>>
    ELSE [i \in 1..(start - end + 1) |-> EngineLevel(start - (i - 1), start, tb)]

\* PngRDD.asSingleband(layer.srdd, ramp_name) on the JVM side
asSingleband(srdd, ramp_name) == [zoom |-> srdd.zoom, ramp |-> ramp_name]

\* pngrdd.lookup(col, row) on the JVM side: the payloads stored under the key,
\* in source order (a key may hold more than one shard)
SrddLookup(pngrdd, col, row) ==
    [i \in 1..(1 + ((col + row) % 2)) |->
        [zoom |-> pngrdd.zoom, ramp |-> pngrdd.ramp, col |-> col, row |-> row, shard |-> i]]

RESAMPLE_METHODS == {"NearestNeighbor", "Bilinear", "CubicConvolution"}

RampNames == {"hot"}

PersistModes == {"NONE", "MEMORY_ONLY"}

(***************************************************************************)
(* PngRDD                                                                  *)
(***************************************************************************)
NoInstance ==
    [exists |-> FALSE, max_zoom |-> None, layer_metadata |-> <<>>, pngpyramid |-> <<>>]

\* set_persist(storage_mode) as a method call on an instance: the loop reads
\* self.pyramid, an attribute __init__ never assigns.
set_persist(self, storage_mode) ==
    [err |-> "AttributeError", setPersistenceModeCalls |-> 0]

\* __init__: the fields are assigned from the pyramid, then line 46 calls the
\* bare name set_persist, which is not a name of the module.
PngRDD_init(pyramid, ramp_name, persist_mode) ==
    IF ~PyIndexOK(pyramid, 0)
    THEN [err |-> "IndexError", self |-> NoInstance, setPersistenceModeCalls |-> 0]
    ELSE LET level0 == PyIndex(pyramid, 0) IN
         [err |-> "NameError",
          self |-> [exists |-> TRUE,
                    max_zoom |-> level0.zoom_level,
                    layer_metadata |-> [i \in 1..Len(pyramid) |-> pyramid[i].layer_metadata],
                    pngpyramid |-> [i \in 1..Len(pyramid) |->
                                       asSingleband(pyramid[i].srdd, ramp_name)]],
          setPersistenceModeCalls |-> 0]

\* makePyramid after the resample check: reproject, settle start_zoom,
\* pyramid, construct.
makePyramidBody(srcZoom, tb, ramp_name, start_zoom, end_zoom, resample_method, persist_mode) ==
    LET reprojected == [zoom_level |-> srcZoom] IN
    IF Falsy(start_zoom) /\ Falsy(reprojected.zoom_level)
    THEN [err |-> "AttributeError", reprojects |-> 1, pyramidArgs |-> <<>>,
          constructed |-> FALSE, self |-> NoInstance]
    ELSE LET start == IF Falsy(start_zoom) THEN reprojected.zoom_level ELSE start_zoom
             pyramid == EnginePyramid(start, end_zoom, tb)
             made == PngRDD_init(pyramid, ramp_name, persist_mode)
         IN [err |-> made.err, reprojects |-> 1,
             pyramidArgs |-> <<start, end_zoom, resample_method>>,
             constructed |-> made.self.exists, self |-> made.self]

makePyramid_checkLate(srcZoom, tb, ramp_name, start_zoom, end_zoom, resample_method, persist_mode) ==
    LET r == makePyramidBody(srcZoom, tb, ramp_name, start_zoom, end_zoom,
                             resample_method, persist_mode)
    IN IF resample_method \notin RESAMPLE_METHODS
       THEN [r EXCEPT !.err = "ValueError"]
       ELSE r

makePyramid(srcZoom, tb, ramp_name, start_zoom, end_zoom, resample_method, persist_mode) ==
    IF resample_method \notin RESAMPLE_METHODS
    THEN [err |-> "ValueError", reprojects |-> 0, pyramidArgs |-> <<>>,
          constructed |-> FALSE, self |-> NoInstance]
    ELSE makePyramidBody(srcZoom, tb, ramp_name, start_zoom, end_zoom,
                         resample_method, persist_mode)

ColOutOfBounds_offByOne(col, min_col, max_col) == col < min_col \/ col >= max_col

ColOutOfBounds(col, min_col, max_col) == col < min_col \/ col > max_col

RowOutOfBounds(row, min_row, max_row) == row < min_row \/ row > max_row

ListIndexError == "IndexError: list index out of range"
ColumnError == "IndexError: column out of bounds"
RowError == "IndexError: row out of bounds"

\* lookup(col, row, zoom): level is the 1-based position of the level used
\* (0: none), srcLookups the calls of pngrdd.lookup.
lookup(self, col, row, zoom) ==
    LET idx == IF Falsy(zoom) THEN 0 ELSE self.max_zoom - zoom IN
    IF ~PyIndexOK(self.pngpyramid, idx)
    THEN [err |-> ListIndexError, level |-> 0, srcLookups |-> 0, value |-> <<>>]
    ELSE LET pngrdd == PyIndex(self.pngpyramid, idx)
             metadata == PyIndex(self.layer_metadata, idx)
             bounds == metadata.bounds
             level == IF idx >= 0 THEN idx + 1 ELSE Len(self.pngpyramid) + idx + 1
         IN IF ColOutOfBounds(col, bounds.minKey.col, bounds.maxKey.col)
            THEN [err |-> ColumnError, level |-> level, srcLookups |-> 0, value |-> <<>>]
            ELSE IF RowOutOfBounds(row, bounds.minKey.row, bounds.maxKey.row)
            THEN [err |-> RowError, level |-> level, srcLookups |-> 0, value |-> <<>>]
            ELSE [err |-> NoError, level |-> level, srcLookups |-> 1,
                  value |-> SrddLookup(pngrdd, col, row)]

(***************************************************************************)
(* The arguments the operations are called with.                           *)
(***************************************************************************)
Zooms == 0..MaxZoom
OptZooms == {None} \cup Zooms
ZoomArgs == {None} \cup 0..(2 * MaxZoom + 1)
KeyArgs == 0..(MaxKey + 1)
ResampleArgs == {"NearestNeighbor", "Bilinear", "Lanczos3x"}

NoArgs == [col |-> None, row |-> None, zoom |-> None, n |-> 0, first_zoom |-> None,
           start_zoom |-> None, end_zoom |-> None, srcZoom |-> None,
           resample_method |-> "", persist_mode |-> ""]

NoOut == [err |-> NoError]

(***************************************************************************)
(* TMS.build                                                               *)
(***************************************************************************)
\* The kinds of source build is handed: a Pyramid, a (str, str) catalog
\* tuple, anything else.
SourceKinds == {"Pyramid", "Catalog", "Other"}

DisplayKinds == {"ColorMap", "callable", "other"}

RECURSIVE SeqsUpTo(_, _)
SeqsUpTo(S, n) ==
    IF n = 0 THEN {<<>>}
    ELSE LET shorter == SeqsUpTo(S, n - 1)
         IN shorter \cup {Append(q, x) : q \in {r \in shorter : Len(r) = n - 1}, x \in S}

\* source: a bare source (isList = FALSE, one item) or a list of sources
SourceArgs ==
    {[isList |-> FALSE, items |-> <<k>>] : k \in SourceKinds}
      \cup {[isList |-> TRUE, items |-> q] : q \in SeqsUpTo(SourceKinds, MaxSources)}

NoHost == "<None>"

NoRoute == [kind |-> "none", readers |-> <<>>, display |-> "none"]

NoTMS == [exists |-> FALSE, handshake |-> "", bound |-> FALSE, _host |-> NoHost, _port |-> None]

\* the JVM TMSServer behind self.server
NoServer == [route |-> NoRoute, listening |-> FALSE, port |-> None, handshake |-> ""]

\* TMSServer.createServer(route)
createServer(route) == [NoServer EXCEPT !.route = route]

\* TMS.__init__(server)
TMS_init == [exists |-> TRUE, handshake |-> "", bound |-> FALSE, _host |-> NoHost, _port |-> None]

makeReader(arg) ==
    IF arg = "Pyramid" THEN [err |-> NoError, reader |-> "SpatialRddReader"]
    ELSE IF arg = "Catalog" THEN [err |-> NoError, reader |-> "CatalogReader"]
    ELSE [err |-> "ValueError: Arguments must be of type Pyramid or (string, string)",
          reader |-> "none"]

\* [makeReader(arg) for arg in source]: the readers made before the first
\* argument that makeReader rejects
FirstBad(items) ==
    LET bad == {i \in 1..Len(items) : makeReader(items[i]).err # NoError}
    IN IF bad = {} THEN 0 ELSE CHOOSE i \in bad : \A k \in bad : i <= k

Unwrap_anyList(source) ==
    IF source.isList /\ Len(source.items) >= 1
    THEN [isList |-> FALSE, items |-> <<source.items[1]>>]
    ELSE source

\* lines 240-241: a one-element list is the source it holds
Unwrap(source) ==
    IF source.isList /\ Len(source.items) = 1
    THEN [isList |-> FALSE, items |-> <<source.items[1]>>]
    ELSE source

ColorMapListError == "ValueError: May only apply color maps to a single input source"
DisplayError == "ValueError: Display method must be callable or a ColorMap"

BuildFailed(err, calls) ==
    [err |-> err, makeReaderCalls |-> calls, route |-> NoRoute,
     serverCreated |-> FALSE, server |-> NoServer, tms |-> NoTMS]

BuildServes(route, calls) ==
    [err |-> NoError, makeReaderCalls |-> calls, route |-> route,
     serverCreated |-> TRUE, server |-> createServer(route), tms |-> TMS_init]

BuildSingle(src, wrapped_display) ==
    LET made == makeReader(src.items[1]) IN
    IF made.err # NoError THEN BuildFailed(made.err, 1)
    ELSE BuildServes([kind |-> "renderingTileRoute", readers |-> <<made.reader>>,
                      display |-> wrapped_display], 1)

build(source, display) ==
    LET src == Unwrap(source) IN
    IF display = "ColorMap"
    THEN IF src.isList THEN BuildFailed(ColorMapListError, 0)
         ELSE BuildSingle(src, "RenderSinglebandFromCM")
    ELSE IF display = "callable"
    THEN IF src.isList
         THEN LET bad == FirstBad(src.items) IN
              IF bad # 0 THEN BuildFailed(makeReader(src.items[bad]).err, bad)
              ELSE BuildServes([kind |-> "compositingTileRoute",
                                readers |-> [i \in 1..Len(src.items) |->
                                                makeReader(src.items[i]).reader],
                                display |-> "TileCompositer"], Len(src.items))
         ELSE BuildSingle(src, "TileRender")
    ELSE BuildFailed(DisplayError, 0)

(***************************************************************************)
(* TMS: bind, unbind, set_handshake, url_pattern                           *)
(***************************************************************************)
\* the port the JVM server takes when none is requested
EphemeralPort == 49152

\* ip.startswith("127.")
StartsWith127(ip) == ip \in {"127.0.0.1", "127.0.1.1"}

\* lines 158-162: the first address of the host name that is not loopback,
\* else the address of the outbound interface
DiscoverHost(resolved, outbound) ==
    LET nonLoopback == SelectSeq(resolved, LAMBDA ip : ~StartsWith127(ip))
        first == IF Len(nonLoopback) = 0 THEN <<>> ELSE <<nonLoopback[1]>>
        cands == SelectSeq(<<first, <<outbound>>>>, LAMBDA l : Len(l) > 0)
    IN cands[1][1]

\* server.bind(host[, port]) on the JVM side
serverBind(srv, requested_port) ==
    [srv EXCEPT !.listening = TRUE,
                !.port = IF Falsy(requested_port) THEN EphemeralPort ELSE requested_port]

BindError == "RuntimeError"

\* bind(host, requested_port): net says what the network calls do (whether
\* server.bind, gethostbyname_ex and the UDP connect succeed, and the
\* addresses they give). Any exception leaves what was assigned before it.
bind(self, srv, host, requested_port, net) ==
    IF ~net.bindOK THEN [self |-> self, server |-> srv, err |-> BindError]
    ELSE LET srv1 == serverBind(srv, requested_port)
             self1 == [self EXCEPT !.bound = TRUE, !._port = srv1.port]
         IN IF ~net.resolveOK \/ ~net.outboundOK
            THEN [self |-> self1, server |-> srv1, err |-> BindError]
            ELSE [self |-> [self1 EXCEPT !._host = DiscoverHost(net.resolved, net.outbound)],
                  server |-> srv1, err |-> NoError]

\* unbind(): self.bound is not assigned
unbind(self, srv) ==
    [self |-> [self EXCEPT !._port = None, !._host = NoHost],
     server |-> [srv EXCEPT !.listening = FALSE, !.port = None],
     err |-> NoError]

set_handshake(self, srv, handshake) ==
    [self |-> [self EXCEPT !.handshake = handshake],
     server |-> [srv EXCEPT !.handshake = handshake],
     err |-> NoError]

\* "{}".format(v) of a host or a port
FormatHost(h) == IF h = NoHost THEN "None" ELSE h
FormatPort(p) == IF p = None THEN "None" ELSE ToString(p)

UnboundError == "ValueError: Cannot generate URL for unbound TMS server"

url_pattern(self) ==
    IF ~self.bound THEN [err |-> UnboundError, url |-> <<>>]
    ELSE [err |-> NoError,
          url |-> <<"http://", FormatHost(self._host), ":", FormatPort(self._port),
                    "/tile/", "{z}", "/", "{x}", "/", "{y}", ".png">>]


(***************************************************************************)
(* TileRender / TileCompositer: the callback bridge                        *)
(***************************************************************************)
\* multibandtile_decoder: an encoded tile is a cell count followed by that
\* many cells; anything else does not decode.
Decodes(scala_array) ==
    Len(scala_array) >= 1 /\ scala_array[1] = Len(scala_array) - 1

multibandtile_decoder(scala_array) ==
    IF Decodes(scala_array)
    THEN [raised |-> NoError, cells |-> Tail(scala_array)]
    ELSE [raised |-> "DecodeError", cells |-> <<>>]

\* image.save(bio, 'PNG'); bio.getvalue()
SavePNG(image) == <<"PNG">> \o image.pixels

\* The render functions a caller supplies. Each gives what it raises (an
\* Exception) or the object it returns; an object that is no image has no
\* save method.
RenderFns == {"gray", "invert", "raises", "failsOnEmpty", "returnsBytes"}

render_function(f, cells) ==
    IF f = "gray" THEN [raised |-> NoError, isImage |-> TRUE, pixels |-> cells]
    ELSE IF f = "invert"
    THEN [raised |-> NoError, isImage |-> TRUE,
          pixels |-> [i \in 1..Len(cells) |-> 1 - cells[i]]]
    ELSE IF f = "failsOnEmpty"
    THEN IF Len(cells) = 0
         THEN [raised |-> "ValueError", isImage |-> FALSE, pixels |-> <<>>]
         ELSE [raised |-> NoError, isImage |-> TRUE, pixels |-> cells]
    ELSE IF f = "returnsBytes"
    THEN [raised |-> NoError, isImage |-> FALSE, pixels |-> cells]
    ELSE [raised |-> "ZeroDivisionError", isImage |-> FALSE, pixels |-> <<>>]

CompositeFns == {"concat", "first", "raises"}

RECURSIVE Concat(_)
Concat(cells) == IF Len(cells) = 0 THEN <<>> ELSE Head(cells) \o Concat(Tail(cells))

composite_function(g, cells) ==
    IF g = "concat" THEN [raised |-> NoError, isImage |-> TRUE, pixels |-> Concat(cells)]
    ELSE IF g = "first"
    THEN IF Len(cells) = 0
         THEN [raised |-> "IndexError", isImage |-> FALSE, pixels |-> <<>>]
         ELSE [raised |-> NoError, isImage |-> TRUE, pixels |-> cells[1]]
    ELSE [raised |-> "ZeroDivisionError", isImage |-> FALSE, pixels |-> <<>>]

\* What the body of a try block comes to: the exception it raises, or the
\* bytes it returns.
Saved(image) ==
    IF image.raised # NoError THEN [raised |-> image.raised, bytes |-> <<>>]
    ELSE IF ~image.isImage THEN [raised |-> "AttributeError", bytes |-> <<>>]
    ELSE [raised |-> NoError, bytes |-> SavePNG(image)]

\* lines 46-51
RenderTry(self, scala_array) ==
    LET tile == multibandtile_decoder(scala_array) IN
    IF tile.raised # NoError THEN [raised |-> tile.raised, bytes |-> <<>>]
    ELSE Saved(render_function(self.render_function, tile.cells))

\* lines 94-98
CompositeTry(self, all_scala_arrays) ==
    LET tiles == [i \in 1..Len(all_scala_arrays) |-> multibandtile_decoder(all_scala_arrays[i])]
        bad == {i \in 1..Len(tiles) : tiles[i].raised # NoError}
    IN IF bad # {}
       THEN [raised |-> tiles[CHOOSE i \in bad : \A k \in bad : i <= k].raised, bytes |-> <<>>]
       ELSE Saved(composite_function(self.composite_function,
                                     [i \in 1..Len(tiles) |-> tiles[i].cells]))

\* except Exception: print_exc(), and the method returns None
Caught(self, try) ==
    IF try.raised # NoError
    THEN [self |-> self, propagated |-> NoError, returnsNone |-> TRUE, bytes |-> <<>>,
          traces |-> 1]
    ELSE [self |-> self, propagated |-> NoError, returnsNone |-> FALSE, bytes |-> try.bytes,
          traces |-> 0]

renderEncoded_noExcept(self, scala_array) ==
    LET try == RenderTry(self, scala_array) IN
    [Caught(self, try) EXCEPT !.propagated = try.raised, !.traces = 0]

renderEncoded(self, scala_array) == Caught(self, RenderTry(self, scala_array))

compositeEncoded(self, all_scala_arrays) ==
    Caught(self, CompositeTry(self, all_scala_arrays))

(***************************************************************************)
(* TMS as a state machine: tms holds the fields of the TMS object, server  *)
(* the JVM server it drives, tmsOp the last call with the object as it was *)
(* before the call (pre).                                                  *)
(***************************************************************************)
HostArgs == {"0.0.0.0", "127.0.0.1"}
PortArgs == {None, 8080}
Handshakes == {"", "tokA", "tokB"}
Resolutions == {<<"127.0.0.1">>, <<"127.0.1.1", "10.0.0.5">>, <<"10.0.0.5", "10.0.0.6">>}
Outbound == "192.168.1.7"

NetOutcomes ==
    [bindOK : BOOLEAN, resolveOK : BOOLEAN, resolved : Resolutions,
     outboundOK : BOOLEAN, outbound : {Outbound}]

NoTmsArgs == [host |-> "", requested_port |-> None, handshake |-> "",
              source |-> [isList |-> FALSE, items |-> <<>>], display |-> ""]

NoTmsOut == [err |-> NoError]

EncodedArrays == SeqsUpTo(0..1, MaxBytes)

\* a tile that decodes to one cell, another, and one that does not decode
TileChoices == {<<1, 0>>, <<1, 1>>, <<1>>}

NoBrOp == [op |-> "none", scala_array |-> <<>>, all_scala_arrays |-> <<>>,
           failuresBefore |-> 0,
           out |-> [self |-> [render_function |-> ""], propagated |-> NoError,
                    returnsNone |-> FALSE, bytes |-> <<>>, traces |-> 0]]

InitAll ==
    /\ png = NoInstance
    /\ pngOp = [op |-> "none", args |-> NoArgs, out |-> NoOut]
    /\ tms = NoTMS
    /\ server = NoServer
    /\ tmsOp = [op |-> "none", args |-> NoTmsArgs, pre |-> NoTMS, preListening |-> FALSE,
                out |-> NoTmsOut]
    /\ supplied = [render |-> "gray", composite |-> "concat"]
    /\ bridge = [render |-> [render_function |-> "gray"],
                 compositer |-> [composite_function |-> "concat"]]
    /\ failures = 0
    /\ brOp = NoBrOp

(***************************************************************************)
(* PngRDD as a state machine: png holds the fields of the instance most    *)
(* recently initialised by __init__ (as lines 39-45 leave them), pngOp the *)
(* last call, its arguments and what it did.                               *)
(***************************************************************************)
Construct ==
    \E start \in Zooms, tb \in TopBounds, ramp \in RampNames, mode \in PersistModes :
      \E end \in 0..start :
        LET pyramid == EnginePyramid(start, end, tb)
            r == PngRDD_init(pyramid, ramp, mode)
        IN /\ png' = r.self
           /\ pngOp' = [op |-> "init",
                        args |-> [NoArgs EXCEPT !.n = Len(pyramid),
                                                !.first_zoom = pyramid[1].zoom_level,
                                                !.persist_mode = mode],
                        out |-> r]
           /\ UNCHANGED <<tmsVars, brVars>>

MakePyramid ==
    \E srcZoom \in OptZooms, tb \in TopBounds, ramp \in RampNames,
       start_zoom \in OptZooms, end_zoom \in 0..1,
       resample_method \in ResampleArgs, mode \in PersistModes :
        LET r == makePyramid(srcZoom, tb, ramp, start_zoom, end_zoom, resample_method, mode)
        IN /\ png' = IF r.constructed THEN r.self ELSE png
           /\ pngOp' = [op |-> "makePyramid",
                        args |-> [NoArgs EXCEPT !.start_zoom = start_zoom,
                                                !.end_zoom = end_zoom,
                                                !.srcZoom = srcZoom,
                                                !.resample_method = resample_method,
                                                !.persist_mode = mode],
                        out |-> r]
           /\ UNCHANGED <<tmsVars, brVars>>

Lookup ==
    /\ png.exists
    /\ \E col \in KeyArgs, row \in KeyArgs, zoom \in ZoomArgs :
         pngOp' = [op |-> "lookup",
                   args |-> [NoArgs EXCEPT !.col = col, !.row = row, !.zoom = zoom],
                   out |-> lookup(png, col, row, zoom)]
    /\ UNCHANGED <<png, tmsVars, brVars>>

SetPersist ==
    /\ png.exists
    /\ \E mode \in PersistModes :
         pngOp' = [op |-> "set_persist",
                   args |-> [NoArgs EXCEPT !.persist_mode = mode],
                   out |-> set_persist(png, mode)]
    /\ UNCHANGED <<png, tmsVars, brVars>>


Build ==
    /\ \E source \in SourceArgs, display \in DisplayKinds :
         LET r == build(source, display) IN
         /\ tms' = r.tms
         /\ server' = r.server
         /\ tmsOp' = [op |-> "build",
                      args |-> [NoTmsArgs EXCEPT !.source = source, !.display = display],
                      pre |-> NoTMS, preListening |-> FALSE, out |-> r]
    /\ UNCHANGED <<pngVars, brVars>>

\* the object TMS.build returns for one Pyramid and a callable
InitTMS ==
    /\ png = NoInstance
    /\ pngOp = [op |-> "none", args |-> NoArgs, out |-> NoOut]
    /\ tms = build([isList |-> FALSE, items |-> <<"Pyramid">>], "callable").tms
    /\ server = build([isList |-> FALSE, items |-> <<"Pyramid">>], "callable").server
    /\ tmsOp = [op |-> "none", args |-> NoTmsArgs, pre |-> NoTMS, preListening |-> FALSE,
                out |-> NoTmsOut]
    /\ supplied = [render |-> "gray", composite |-> "concat"]
    /\ bridge = [render |-> [render_function |-> "gray"],
                 compositer |-> [composite_function |-> "concat"]]
    /\ failures = 0
    /\ brOp = NoBrOp

Bind ==
    /\ tms.exists
    /\ \E host \in HostArgs, requested_port \in PortArgs, net \in NetOutcomes :
         LET r == bind(tms, server, host, requested_port, net) IN
         /\ tms' = r.self
         /\ server' = r.server
         /\ tmsOp' = [op |-> "bind",
                      args |-> [NoTmsArgs EXCEPT !.host = host,
                                                 !.requested_port = requested_port],
                      pre |-> tms, preListening |-> server.listening,
                      out |-> [err |-> r.err]]
    /\ UNCHANGED <<pngVars, brVars>>

Unbind ==
    /\ tms.exists
    /\ LET r == unbind(tms, server) IN
         /\ tms' = r.self
         /\ server' = r.server
         /\ tmsOp' = [op |-> "unbind", args |-> NoTmsArgs,
                      pre |-> tms, preListening |-> server.listening,
                      out |-> [err |-> r.err]]
    /\ UNCHANGED <<pngVars, brVars>>

SetHandshake ==
    /\ tms.exists
    /\ \E handshake \in Handshakes :
         LET r == set_handshake(tms, server, handshake) IN
         /\ tms' = r.self
         /\ server' = r.server
         /\ tmsOp' = [op |-> "set_handshake",
                      args |-> [NoTmsArgs EXCEPT !.handshake = handshake],
                      pre |-> tms, preListening |-> server.listening,
                      out |-> [err |-> r.err]]
    /\ UNCHANGED <<pngVars, brVars>>

UrlPattern ==
    /\ tms.exists
    /\ tmsOp' = [op |-> "url_pattern", args |-> NoTmsArgs,
                 pre |-> tms, preListening |-> server.listening,
                 out |-> url_pattern(tms)]
    /\ UNCHANGED <<tms, server, pngVars, brVars>>

(***************************************************************************)
(* The bridge as a state machine: supplied holds the functions the caller  *)
(* constructed TileRender and TileCompositer with, bridge the two objects, *)
(* failures the requests that raised so far (counted up to MaxFail), brOp  *)
(* the last request.                                                       *)
(***************************************************************************)
InitBridge ==
    /\ png = NoInstance
    /\ pngOp = [op |-> "none", args |-> NoArgs, out |-> NoOut]
    /\ tms = NoTMS
    /\ server = NoServer
    /\ tmsOp = [op |-> "none", args |-> NoTmsArgs, pre |-> NoTMS, preListening |-> FALSE,
                out |-> NoTmsOut]
    /\ \E f \in RenderFns, g \in CompositeFns :
         /\ supplied = [render |-> f, composite |-> g]
         /\ bridge = [render |-> [render_function |-> f],
                      compositer |-> [composite_function |-> g]]
    /\ failures = 0
    /\ brOp = NoBrOp

Count(n, out) ==
    IF (out.returnsNone \/ out.propagated # NoError) /\ n < MaxFail THEN n + 1 ELSE n

RenderEncoded ==
    /\ \E scala_array \in EncodedArrays :
         LET r == renderEncoded(bridge.render, scala_array) IN
         /\ bridge' = [bridge EXCEPT !.render = r.self]
         /\ failures' = Count(failures, r)
         /\ brOp' = [NoBrOp EXCEPT !.op = "renderEncoded", !.scala_array = scala_array,
                                   !.failuresBefore = failures, !.out = r]
    /\ UNCHANGED <<supplied, pngVars, tmsVars>>

CompositeEncoded ==
    /\ \E all_scala_arrays \in SeqsUpTo(TileChoices, MaxTiles) :
         LET r == compositeEncoded(bridge.compositer, all_scala_arrays) IN
         /\ bridge' = [bridge EXCEPT !.compositer = r.self]
         /\ failures' = Count(failures, r)
         /\ brOp' = [NoBrOp EXCEPT !.op = "compositeEncoded",
                                   !.all_scala_arrays = all_scala_arrays,
                                   !.failuresBefore = failures, !.out = r]
    /\ UNCHANGED <<supplied, pngVars, tmsVars>>

(***************************************************************************)
(* Specifications                                                          *)
(***************************************************************************)
NextPng == Construct \/ Lookup \/ SetPersist

SpecPng == InitAll /\ [][NextPng]_vars

NextMake == MakePyramid

SpecMake == InitAll /\ [][NextMake]_vars

NextBuild == Build

SpecBuild == InitAll /\ [][NextBuild]_vars

NextTMS == Bind \/ Unbind \/ SetHandshake \/ UrlPattern

SpecTMS == InitTMS /\ [][NextTMS]_vars

NextBridge == RenderEncoded \/ CompositeEncoded

SpecBridge == InitBridge /\ [][NextBridge]_vars


(***************************************************************************)
(* Properties                                                              *)
(***************************************************************************)
\* the zooms the instance holds levels for: max_zoom down to end_zoom
EndZoom == png.max_zoom - Len(png.pngpyramid) + 1

\* C1: lookup with a zoom in [end_zoom .. max_zoom] uses the level at index
\* max_zoom - zoom (zoom 0 included), and with any other zoom it fails with
\* the list's range error instead of using some level.
C1_ZoomSelectsLevel ==
    (pngOp.op = "lookup" /\ pngOp.args.zoom # None) =>
        IF EndZoom <= pngOp.args.zoom /\ pngOp.args.zoom <= png.max_zoom
        THEN /\ pngOp.out.err # ListIndexError
             /\ pngOp.out.level = (png.max_zoom - pngOp.args.zoom) + 1
        ELSE /\ pngOp.out.err = ListIndexError
             /\ pngOp.out.level = 0

\* the bounds of the level the last lookup used
UsedBounds == png.layer_metadata[pngOp.out.level].bounds

KeyInBounds ==
    /\ UsedBounds.minKey.col <= pngOp.args.col /\ pngOp.args.col <= UsedBounds.maxKey.col
    /\ UsedBounds.minKey.row <= pngOp.args.row /\ pngOp.args.row <= UsedBounds.maxKey.row

ColInBounds ==
    UsedBounds.minKey.col <= pngOp.args.col /\ pngOp.args.col <= UsedBounds.maxKey.col

\* C4: on the level a lookup uses, the call succeeds exactly when the key is
\* inside the level's bounds, both ends included, and then returns the
\* level's payloads in their order from one call of the level's lookup; a
\* column outside fails with the column error, a row outside (the column
\* inside) with the row error, and neither calls the level's lookup.
C4_LookupBoundsChecked ==
    (pngOp.op = "lookup" /\ pngOp.out.level # 0) =>
        /\ (pngOp.out.err = NoError) <=> KeyInBounds
        /\ KeyInBounds =>
              /\ pngOp.out.srcLookups = 1
              /\ pngOp.out.value =
                    SrddLookup(png.pngpyramid[pngOp.out.level], pngOp.args.col, pngOp.args.row)
        /\ ~ColInBounds => pngOp.out.err = ColumnError /\ pngOp.out.srcLookups = 0
        /\ (ColInBounds /\ ~KeyInBounds) =>
              pngOp.out.err = RowError /\ pngOp.out.srcLookups = 0

\* a lookup of the far corner of a coarser level's bounds that succeeded
C4_Witness ==
    /\ pngOp.op = "lookup"
    /\ pngOp.out.level > 1
    /\ pngOp.out.err = NoError
    /\ pngOp.args.col = UsedBounds.maxKey.col
    /\ pngOp.args.row = UsedBounds.maxKey.row
    /\ Len(pngOp.out.value) >= 1

\* C5: with a recognised resample method, makePyramid pyramids from the
\* caller's start_zoom when one is given (0 included), from the reprojected
\* layer's zoom when none is given and that zoom is known, and fails with
\* the configuration error when neither is; the end zoom is the caller's.
C5_StartZoomChosen ==
    (pngOp.op = "makePyramid" /\ pngOp.args.resample_method \in RESAMPLE_METHODS) =>
        IF pngOp.args.start_zoom # None
        THEN /\ pngOp.out.pyramidArgs # <<>>
             /\ pngOp.out.pyramidArgs[1] = pngOp.args.start_zoom
             /\ pngOp.out.pyramidArgs[2] = pngOp.args.end_zoom
        ELSE IF pngOp.args.srcZoom # None
        THEN /\ pngOp.out.pyramidArgs # <<>>
             /\ pngOp.out.pyramidArgs[1] = pngOp.args.srcZoom
             /\ pngOp.out.pyramidArgs[2] = pngOp.args.end_zoom
        ELSE pngOp.out.err = "AttributeError" /\ pngOp.out.pyramidArgs = <<>>

\* C9: makePyramid with an unrecognised resample method fails, whatever the
\* other arguments, before the layer is reprojected or pyramided and before
\* a PngRDD is constructed.
C9_ResampleCheckedFirst ==
    (pngOp.op = "makePyramid" /\ pngOp.args.resample_method \notin RESAMPLE_METHODS) =>
        /\ pngOp.out.err = "ValueError"
        /\ pngOp.out.reprojects = 0
        /\ pngOp.out.pyramidArgs = <<>>
        /\ ~pngOp.out.constructed

\* an unrecognised method given together with no start_zoom and a source
\* layer of unknown zoom
C9_Witness ==
    /\ pngOp.op = "makePyramid"
    /\ pngOp.args.resample_method \notin RESAMPLE_METHODS
    /\ pngOp.args.start_zoom = None
    /\ pngOp.args.srcZoom = None
    /\ pngOp.out.err = "ValueError"

\* C10: constructing a PngRDD from n >= 1 levels completes without error for
\* every persist mode, holds n PNG levels and n metadata entries in the
\* order of the input, has max_zoom the zoom of the first level, and has
\* applied the persistence mode to every level.
C10_ConstructionCompletes ==
    (pngOp.op = "init" /\ pngOp.args.n >= 1) =>
        /\ pngOp.out.err = NoError
        /\ Len(png.pngpyramid) = pngOp.args.n
        /\ Len(png.layer_metadata) = pngOp.args.n
        /\ png.max_zoom = pngOp.args.first_zoom
        /\ \A i \in 1..pngOp.args.n : png.layer_metadata[i].zoom = pngOp.args.first_zoom - (i - 1)
        /\ pngOp.out.setPersistenceModeCalls = pngOp.args.n

\* The server is Bound from a bind that succeeded until the next unbind:
\* the JVM server listens and the object has recorded a host and a port.
IsBound == server.listening /\ tms._host # NoHost /\ tms._port # None

\* C2: url_pattern fails with the state error whenever the server is
\* Unbound, and only while Bound returns the pattern with {z}, {x}, {y} and
\* the recorded host and port.
C2_UrlPatternOnlyWhileBound ==
    tmsOp.op = "url_pattern" =>
        IF IsBound
        THEN /\ tmsOp.out.err = NoError
             /\ tmsOp.out.url = <<"http://", tms._host, ":", ToString(tms._port),
                                  "/tile/", "{z}", "/", "{x}", "/", "{y}", ".png">>
        ELSE tmsOp.out.err = UnboundError /\ tmsOp.out.url = <<>>

\* C3: a bind that fails leaves bound, host and port as they were before
\* the call.
C3_FailedBindKeepsState ==
    (tmsOp.op = "bind" /\ tmsOp.out.err # NoError) =>
        /\ tms.bound = tmsOp.pre.bound
        /\ tms._host = tmsOp.pre._host
        /\ tms._port = tmsOp.pre._port

\* C6: unbind in any state does not raise, leaves the server Unbound with
\* host and port None, and a second unbind changes nothing.
C6_UnbindLeavesUnbound ==
    tmsOp.op = "unbind" =>
        /\ tmsOp.out.err = NoError
        /\ ~tms.bound
        /\ ~server.listening
        /\ tms._host = NoHost
        /\ tms._port = None
        /\ unbind(tms, server).err = NoError
        /\ unbind(tms, server).self = tms

\* C7: build with a ColorMap and a list of more than one source fails with
\* the configuration error before any reader, route or server is made; with
\* a ColorMap and one source of a readable kind, bare or in a one-element
\* list, it builds a rendering route over that one source.
C7_ColorMapSingleSource ==
    (tmsOp.op = "build" /\ tmsOp.args.display = "ColorMap") =>
        /\ (tmsOp.args.source.isList /\ Len(tmsOp.args.source.items) > 1) =>
              /\ tmsOp.out.err = ColorMapListError
              /\ tmsOp.out.makeReaderCalls = 0
              /\ tmsOp.out.route = NoRoute
              /\ ~tmsOp.out.serverCreated
              /\ ~tms.exists
        /\ (Len(tmsOp.args.source.items) = 1
              /\ tmsOp.args.source.items[1] \in {"Pyramid", "Catalog"}) =>
              /\ tmsOp.out.err = NoError
              /\ tmsOp.out.route.kind = "renderingTileRoute"
              /\ Len(tmsOp.out.route.readers) = 1
              /\ tmsOp.out.route.display = "RenderSinglebandFromCM"
              /\ tmsOp.out.serverCreated
              /\ server.route = tmsOp.out.route
              /\ tms.exists

\* a ColorMap handed a list of several readable sources
C7_Witness ==
    /\ tmsOp.op = "build"
    /\ tmsOp.args.display = "ColorMap"
    /\ tmsOp.args.source.isList
    /\ Len(tmsOp.args.source.items) > 1
    /\ \A i \in 1..Len(tmsOp.args.source.items) : tmsOp.args.source.items[i] = "Pyramid"
    /\ tmsOp.out.err = ColorMapListError

\* the tiles of a composite request all decode
AllDecode(arrays) == \A i \in 1..Len(arrays) : Decodes(arrays[i])

\* C8: an exception raised while decoding or inside the supplied render or
\* composite function is caught: nothing propagates and the request gives
\* no image; the objects stay as constructed, so a request that decodes and
\* renders gives its encoded image whatever failed before it.
C8_ExceptionsContained ==
    /\ bridge.render.render_function = supplied.render
    /\ bridge.compositer.composite_function = supplied.composite
    /\ brOp.op = "renderEncoded" =>
          LET try == RenderTry([render_function |-> supplied.render], brOp.scala_array) IN
          /\ brOp.out.propagated = NoError
          /\ try.raised # NoError => brOp.out.returnsNone /\ brOp.out.bytes = <<>>
          /\ try.raised = NoError => ~brOp.out.returnsNone /\ brOp.out.bytes = try.bytes
          /\ ~Decodes(brOp.scala_array) => brOp.out.returnsNone
          /\ supplied.render = "raises" => brOp.out.returnsNone
          /\ (Decodes(brOp.scala_array) /\ supplied.render = "gray") =>
                brOp.out.bytes = <<"PNG">> \o Tail(brOp.scala_array)
    /\ brOp.op = "compositeEncoded" =>
          LET try == CompositeTry([composite_function |-> supplied.composite],
                                  brOp.all_scala_arrays) IN
          /\ brOp.out.propagated = NoError
          /\ try.raised # NoError => brOp.out.returnsNone /\ brOp.out.bytes = <<>>
          /\ try.raised = NoError => ~brOp.out.returnsNone /\ brOp.out.bytes = try.bytes
          /\ ~AllDecode(brOp.all_scala_arrays) => brOp.out.returnsNone
          /\ supplied.composite = "raises" => brOp.out.returnsNone

\* a request that rendered its image on an object whose earlier requests
\* raised
C8_Witness ==
    /\ brOp.op = "renderEncoded"
    /\ brOp.failuresBefore > 0
    /\ ~brOp.out.returnsNone
    /\ Len(brOp.out.bytes) > 1

=============================================================================
